---- MODULE Spec2Model ----
(***************************************************************************)
(* A model of the SERP tracker: the ranking store (database.py), the       *)
(* scrape strategies (scraper.py) and the orchestration loop (tracker.py). *)
(***************************************************************************)
EXTENDS Integers, Sequences, FiniteSets, TLC

(***************************************************************************)
(* Bounds of the model.                                                    *)
(***************************************************************************)
\* positions a direct save may carry: 1..MaxPos
MaxPos == 20
\* committed ranking saves (the AUTOINCREMENT counter stays below this)
MaxSaves == 2
\* result entries on a fetched page
MaxPage == 2
\* keyword checks made by the orchestrator, over all runs
MaxChecks == 3
\* storage faults met, over all runs
MaxFaults == 1
\* run records held when a single-client run may still start
MaxRuns == 1
\* committed ranking saves in the histories of one key over several days
MaxHistory == 3

(***************************************************************************)
(* Optional values: Python's None is the empty sequence, a present value x *)
(* is the one-element sequence <<x>>.                                      *)
(***************************************************************************)
None == <<>>

Some(x) == <<x>>

Abs(x) == IF x < 0 THEN -x ELSE x

\* Python truthiness of an Optional[int]: None and 0 are false
Truthy(opt) == opt # None /\ opt[1] # 0

(***************************************************************************)
(* The externally supplied configuration: clients in file order, each with *)
(* its domain and its ordered keyword list.                                *)
(***************************************************************************)
ConfigClients ==
    << [client_id |-> "c1", domain |-> "a.com", keywords |-> <<"k1", "k2">>],
       [client_id |-> "c3", domain |-> "c.com", keywords |-> <<>>],
       [client_id |-> "c2", domain |-> "b.com", keywords |-> <<"k1">>] >>

VARIABLES
    rankings,       \* table rankings: a set of rows
    rank_seq,       \* AUTOINCREMENT counter of table rankings
    alerts,         \* table alerts: rows in insertion (id) order
    tracking_runs,  \* table tracking_runs: rows in insertion order
    today,          \* the calendar day datetime.now() falls on
    last,           \* the most recent store call: its arguments and outcome
    saved,          \* per (client_id, keyword, check_date): the last committed save
    scraping,       \* the scraping section of the configuration
    scraper,        \* the strategy create_scraper built
    pc,             \* where the orchestrator is: "idle", "running" (in the
                    \* loops of track_all), "logged" (run record written),
                    \* "restoring" (track_client after its track_all),
                    \* "kw_running" (in the loop of track_keyword), "done",
                    \* "stopped" (interrupted), "crashed" (an exception left
                    \* the entry point)
    test_mode,      \* the test_mode argument of the run
    clients,        \* self.config['clients'], in file order
    ci,             \* index of the client the loop is at
    ki,             \* index of the keyword the loop is at
    total_keywords, \* the counters and the error list of the run
    successful,
    failed,
    errors,
    nchecks,        \* keyword checks made so far, over all runs
    nfaults,        \* storage faults counted so far, over all runs
    log,            \* the checks of the current run, in order: what each met
    shown,          \* the alerts the run fetched and printed at its end
    browsers,       \* browser instances started and not quit
    mode,           \* the entry point running or run last: "all", "client",
                    \* "keyword"
    run_keyword,    \* the keyword argument of track_keyword
    original_clients, \* the local original_clients of track_client
    out,            \* what the entry point reported, if anything
    parse_in,       \* the last direct call of the parser: page and target
    parse_out       \* what that call returned

storeVars == <<rankings, rank_seq, alerts, tracking_runs>>

histVars == <<last, saved>>

runVars == <<scraping, scraper, pc, test_mode, clients, ci, ki, total_keywords,
             successful, failed, errors, nchecks, nfaults, log, shown, browsers,
             mode, run_keyword, original_clients, out>>

parseVars == <<parse_in, parse_out>>

vars == <<storeVars, today, histVars, runVars, parseVars>>

(***************************************************************************)
(* database.py: save_ranking and _check_for_alerts                         *)
(***************************************************************************)
\* the row the INSERT of save_ranking writes
RankingRow(id, client_id, domain, keyword, position, url, title, snippet, check_date) ==
    [id |-> id, client_id |-> client_id, domain |-> domain, keyword |-> keyword,
     position |-> position, url |-> url, title |-> title, snippet |-> snippet,
     check_date |-> check_date]

SameKey(r, row) ==
    /\ r.client_id = row.client_id
    /\ r.keyword = row.keyword
    /\ r.check_date = row.check_date

\* a plain INSERT that ignores the UNIQUE constraint
InsertAppend(rows, row) == rows \cup {row}

\* INSERT OR REPLACE under UNIQUE(client_id, keyword, check_date): the rows
\* in conflict are deleted, then the new row is inserted
InsertOrReplace(rows, row) ==
    {r \in rows : ~SameKey(r, row)} \cup {row}

\* the same SELECT with ORDER BY check_date ASC: the oldest earlier row
PreviousPositionOldest(rows, client_id, keyword, check_date) ==
    LET earlier == {r \in rows : /\ r.client_id = client_id
                                 /\ r.keyword = keyword
                                 /\ r.check_date < check_date}
    IN  IF earlier = {} THEN <<>>
        ELSE LET r == CHOOSE x \in earlier :
                          \A y \in earlier : x.check_date <= y.check_date
             IN  <<r.position>>

\* SELECT position ... WHERE check_date < ? ORDER BY check_date DESC LIMIT 1:
\* cursor.fetchone(), <<>> when there is no row, else <<position>>
PreviousPosition(rows, client_id, keyword, check_date) ==
    LET earlier == {r \in rows : /\ r.client_id = client_id
                                 /\ r.keyword = keyword
                                 /\ r.check_date < check_date}
    IN  IF earlier = {} THEN <<>>
        ELSE LET r == CHOOSE x \in earlier :
                          \A y \in earlier : y.check_date <= x.check_date
             IN  <<r.position>>

\* the change column with the magnitude of a new entry, its sign dropped
AlertChangeUnsigned(old_position, new_position) ==
    IF old_position = None
    THEN IF Truthy(new_position) THEN new_position[1] ELSE 0
    ELSE IF new_position = None
         THEN -old_position[1]
         ELSE old_position[1] - new_position[1]

\* the change column with the difference of two present positions taken as
\* new_position - old_position
AlertChangeReversed(old_position, new_position) ==
    IF old_position = None
    THEN IF Truthy(new_position) THEN -new_position[1] ELSE 0
    ELSE IF new_position = None
         THEN old_position[1]
         ELSE new_position[1] - old_position[1]

\* the change column of an alert
AlertChange(old_position, new_position) ==
    IF old_position = None
    THEN IF Truthy(new_position) THEN -new_position[1] ELSE 0
    ELSE IF new_position = None
         THEN old_position[1]
         ELSE old_position[1] - new_position[1]

\* the decision list with the boundary checks ahead of the magnitude check
AlertTypeBoundaryFirst(old_position, new_position) ==
    IF old_position = None /\ new_position = None THEN "no_alert"
    ELSE IF old_position = None THEN "new_entry"
    ELSE IF new_position = None THEN "dropped_out"
    ELSE LET o == old_position[1]
             n == new_position[1]
         IN  IF o <= 10 /\ n > 10 THEN "exited_top_10"
             ELSE IF o > 10 /\ n <= 10 THEN "entered_top_10"
             ELSE IF o <= 3 /\ n > 3 THEN "exited_top_3"
             ELSE IF o > 3 /\ n <= 3 THEN "entered_top_3"
             ELSE IF Abs(o - n) >= 5 THEN "major_movement"
             ELSE "no_alert"

\* the decision list with position 10 counted outside the top 10
AlertTypeStrictTen(old_position, new_position) ==
    IF old_position = None /\ new_position = None THEN "no_alert"
    ELSE IF old_position = None THEN "new_entry"
    ELSE IF new_position = None THEN "dropped_out"
    ELSE LET o == old_position[1]
             n == new_position[1]
         IN  IF Abs(o - n) >= 5 THEN "major_movement"
             ELSE IF o < 10 /\ n >= 10 THEN "exited_top_10"
             ELSE IF o >= 10 /\ n < 10 THEN "entered_top_10"
             ELSE IF o <= 3 /\ n > 3 THEN "exited_top_3"
             ELSE IF o > 3 /\ n <= 3 THEN "entered_top_3"
             ELSE "no_alert"

\* the decision list without its two top-3 rules
AlertTypeTopTenOnly(old_position, new_position) ==
    IF old_position = None /\ new_position = None THEN "no_alert"
    ELSE IF old_position = None THEN "new_entry"
    ELSE IF new_position = None THEN "dropped_out"
    ELSE LET o == old_position[1]
             n == new_position[1]
         IN  IF Abs(o - n) >= 5 THEN "major_movement"
             ELSE IF o <= 10 /\ n > 10 THEN "exited_top_10"
             ELSE IF o > 10 /\ n <= 10 THEN "entered_top_10"
             ELSE "no_alert"

\* the decision list with any movement of both-present positions reported
AlertTypeAnyMovement(old_position, new_position) ==
    IF old_position = None /\ new_position = None THEN "no_alert"
    ELSE IF old_position = None THEN "new_entry"
    ELSE IF new_position = None THEN "dropped_out"
    ELSE LET o == old_position[1]
             n == new_position[1]
         IN  IF Abs(o - n) >= 1 THEN "major_movement"
             ELSE "no_alert"

\* the alert type of a transition, "no_alert" where the code returns early
AlertType(old_position, new_position) ==
    IF old_position = None /\ new_position = None THEN "no_alert"
    ELSE IF old_position = None THEN "new_entry"
    ELSE IF new_position = None THEN "dropped_out"
    ELSE LET o == old_position[1]
             n == new_position[1]
         IN  IF Abs(o - n) >= 5 THEN "major_movement"
             ELSE IF o <= 10 /\ n > 10 THEN "exited_top_10"
             ELSE IF o > 10 /\ n <= 10 THEN "entered_top_10"
             ELSE IF o <= 3 /\ n > 3 THEN "exited_top_3"
             ELSE IF o > 3 /\ n <= 3 THEN "entered_top_3"
             ELSE "no_alert"

\* the row the INSERT of _check_for_alerts writes (acknowledged DEFAULT 0)
AlertRow(client_id, keyword, alert_type, old_position, new_position, change, now) ==
    [client_id |-> client_id, keyword |-> keyword, alert_type |-> alert_type,
     old_position |-> old_position, new_position |-> new_position,
     change |-> change, alert_date |-> now, acknowledged |-> FALSE]

\* _check_for_alerts without the return for a key tracked for the first
\* time: the missing prior row is read as an absent prior position
CheckForAlertsNoFirstReturn(rows, alertRows, client_id, keyword, new_position, check_date, now) ==
    LET result == PreviousPosition(rows, client_id, keyword, check_date)
        old_position == IF result = <<>> THEN None ELSE result[1]
        alert_type == AlertType(old_position, new_position)
    IN  IF alert_type = "no_alert" THEN alertRows
        ELSE Append(alertRows,
                    AlertRow(client_id, keyword, alert_type, old_position,
                             new_position,
                             AlertChange(old_position, new_position), now))

\* _check_for_alerts: the alerts table after the call
CheckForAlertsOncePerDay(rows, alertRows, client_id, keyword, new_position, check_date, now) ==
    LET result == PreviousPosition(rows, client_id, keyword, check_date)
    IN  IF result = <<>> THEN alertRows
        ELSE IF \E i \in 1..Len(alertRows) :
                   /\ alertRows[i].client_id = client_id
                   /\ alertRows[i].keyword = keyword
                   /\ alertRows[i].alert_date = now
        THEN alertRows
        ELSE LET old_position == result[1]
                 alert_type == AlertType(old_position, new_position)
             IN  IF alert_type = "no_alert" THEN alertRows
                 ELSE Append(alertRows,
                             AlertRow(client_id, keyword, alert_type, old_position,
                                      new_position,
                                      AlertChange(old_position, new_position), now))

\* _check_for_alerts: the alerts table after the call
CheckForAlerts(rows, alertRows, client_id, keyword, new_position, check_date, now) ==
    LET result == PreviousPosition(rows, client_id, keyword, check_date)
    IN  IF result = <<>> THEN alertRows
        ELSE LET old_position == result[1]
                 alert_type == AlertType(old_position, new_position)
             IN  IF alert_type = "no_alert" THEN alertRows
                 ELSE Append(alertRows,
                             AlertRow(client_id, keyword, alert_type, old_position,
                                      new_position,
                                      AlertChange(old_position, new_position), now))

(***************************************************************************)
(* The faults the storage layer can raise inside save_ranking:            *)
(*   "connect": sqlite3.connect raises, outside the try block;             *)
(*   "insert":  the INSERT or its commit raises, nothing is written;       *)
(*   "alerts":  _check_for_alerts or the second commit raises, the ranking *)
(*              row is committed and the uncommitted alert is lost.        *)
(***************************************************************************)
Faults == {"none", "connect", "insert", "alerts"}

\* what save_ranking gives its caller: True, False, or an exception
SaveReturn(fault) ==
    IF fault = "connect" THEN "raise"
    ELSE IF fault = "none" THEN "True" ELSE "False"

\* whether the ranking row of the call is committed
RowCommitted(fault) == fault \in {"none", "alerts"}

\* save_ranking: the effect on the three tables
SaveRanking(client_id, domain, keyword, position, url, title, snippet, fault) ==
    LET check_date == today
        row == RankingRow(rank_seq + 1, client_id, domain, keyword, position,
                          url, title, snippet, check_date)
        rows == InsertOrReplace(rankings, row)
    IN  /\ rankings' = IF RowCommitted(fault) THEN rows ELSE rankings
        /\ rank_seq' = IF RowCommitted(fault) THEN rank_seq + 1 ELSE rank_seq
        /\ alerts' = IF fault = "none"
                     THEN CheckForAlerts(rows, alerts, client_id, keyword,
                                         position, check_date, today)
                     ELSE alerts
        /\ UNCHANGED tracking_runs

\* the history variables of a save_ranking call: the fault it met and the
\* row it committed, if any
NoteSave(client_id, domain, keyword, position, url, title, snippet, fault) ==
    LET row == RankingRow(rank_seq + 1, client_id, domain, keyword, position,
                          url, title, snippet, today)
        key == <<client_id, keyword, today>>
    IN  /\ last' = [op |-> "save_ranking", fault |-> fault,
                    row |-> IF RowCommitted(fault) THEN Some(row) ELSE None]
        /\ saved' = IF RowCommitted(fault)
                    THEN [k \in DOMAIN saved \cup {key} |->
                            IF k = key THEN row ELSE saved[k]]
                    ELSE saved

\* acknowledge_alerts: UPDATE alerts SET acknowledged = 1 WHERE acknowledged = 0
\* ORDER BY position ASC NULLS LAST
PositionOrdered(a, b) ==
    \/ b.position = None
    \/ a.position # None /\ a.position[1] <= b.position[1]

\* get_current_rankings: the rows of the client whose check_date is the
\* latest check_date of any row of the client, as the lists the query may
\* return: ordered by position, rows of equal position in any order
GetCurrentRankings(rows, client_id) ==
    LET ofClient == {r \in rows : r.client_id = client_id}
        selected == {r \in ofClient : \A z \in ofClient : z.check_date <= r.check_date}
        entries == {[keyword |-> r.keyword, position |-> r.position, url |-> r.url,
                     check_date |-> r.check_date] : r \in selected}
        n == Cardinality(selected)
    IN  {res \in [1..n -> entries] :
            /\ \A i, j \in 1..n : i # j => res[i] # res[j]
            /\ \A i, j \in 1..n : i < j => PositionOrdered(res[i], res[j])}

\* UPDATE alerts SET acknowledged = 1 - acknowledged
AcknowledgeAlertsToggle(alertRows) ==
    [i \in 1..Len(alertRows) |->
        [alertRows[i] EXCEPT !.acknowledged = ~alertRows[i].acknowledged]]

\* DELETE FROM alerts WHERE acknowledged = 0
AcknowledgeAlertsDelete(alertRows) ==
    SelectSeq(alertRows, LAMBDA a : a.acknowledged)

AcknowledgeAlerts(alertRows) ==
    [i \in 1..Len(alertRows) |->
        IF alertRows[i].acknowledged = FALSE
        THEN [alertRows[i] EXCEPT !.acknowledged = TRUE]
        ELSE alertRows[i]]

\* get_unacknowledged_alerts: ... WHERE acknowledged = 0 ORDER BY alert_date
\* DESC; alert_date is the time of the insert, so the latest insert is first
UnacknowledgedAlerts(alertRows) ==
    LET outstanding == SelectSeq(alertRows, LAMBDA a : a.acknowledged = FALSE)
        n == Len(outstanding)
    IN  [i \in 1..n |->
            LET a == outstanding[n + 1 - i]
            IN  [client_id |-> a.client_id, keyword |-> a.keyword,
                 alert_type |-> a.alert_type, old_position |-> a.old_position,
                 new_position |-> a.new_position, change |-> a.change,
                 alert_date |-> a.alert_date]]

\* log_tracking_run: the row appended to tracking_runs; error_log is NULL
\* for an empty or absent list, else the list (json.dumps keeps every entry)
TrackingRunRow(total, n_successful, n_failed, error_list, now) ==
    [run_date |-> now, total_keywords |-> total,
     successful_checks |-> n_successful, failed_checks |-> n_failed,
     error_log |-> IF error_list = None \/ error_list = <<>>
                   THEN None ELSE Some(error_list)]

(***************************************************************************)
(* scraper.py: URLs are token sequences; the text operations of the parser *)
(* (substring test, replace, lower) act token by token.                    *)
(***************************************************************************)
Url(netloc, path) == [netloc |-> netloc, path |-> path]

\* str.lower() of a token
Lower(tok) ==
    CASE tok = "WWW." -> "www."
      [] tok = "A.com" -> "a.com"
      [] OTHER -> tok

\* s in tok, for the tokens of the model
TokContains(tok, s) ==
    \/ tok = s
    \/ <<tok, s>> \in {<<"?q=google.com", "google.com">>, <<"nota.com", "a.com">>}

\* 'google.com' in url
IsGoogleUrl(url) ==
    LET text == url.netloc \o url.path
    IN  \E i \in 1..Len(text) : TokContains(text[i], "google.com")

\* urlparse(url) raises ValueError on an unbalanced bracket in the netloc
UrlParseRaises(url) == \E i \in 1..Len(url.netloc) : url.netloc[i] = "["

\* urlparse(url).netloc.replace('www.', '')
NormalizedHost(url) == SelectSeq(url.netloc, LAMBDA tok : tok # "www.")

\* target_domain.lower() in domain.lower()
DomainMatches(target_domain, domain) ==
    \E i \in 1..Len(domain) : TokContains(Lower(domain[i]), Lower(target_domain))

\* find_all('div', class_='g'), else the data-sokoban-container divs
SearchDivs(page) == IF page.g # <<>> THEN page.g ELSE page.sokoban

\* the tuple _parse_google_results returns for a matching div
FoundTuple(position, div) ==
    [position |-> position,
     url |-> div.href[1],
     title |-> IF div.h3 # None THEN div.h3[1] ELSE "",
     snippet |-> IF div.sncf # None THEN div.sncf[1]
                 ELSE IF div.vwic # None THEN div.vwic[1] ELSE ""]

\* the loop of _parse_google_results from div i on, position being the
\* count of the entries numbered so far
RECURSIVE ParseFrom(_, _, _, _)
ParseFrom(search_divs, i, position, target_domain) ==
    IF i > Len(search_divs) THEN None
    ELSE LET div == search_divs[i]
         IN  IF div.href = None
             THEN ParseFrom(search_divs, i + 1, position, target_domain)
             ELSE IF IsGoogleUrl(div.href[1])
             THEN ParseFrom(search_divs, i + 1, position, target_domain)
             ELSE IF UrlParseRaises(div.href[1])
             THEN ParseFrom(search_divs, i + 1, position + 1, target_domain)
             ELSE IF DomainMatches(target_domain, NormalizedHost(div.href[1]))
             THEN Some(FoundTuple(position + 1, div))
             ELSE ParseFrom(search_divs, i + 1, position + 1, target_domain)

\* _parse_google_results: None, or Some of the tuple found
ParseGoogleResults(page, target_domain) ==
    ParseFrom(SearchDivs(page), 1, 0, target_domain)

\* create_scraper: the strategy the factory builds for a scraping
\* configuration
CreateScraper(config) ==
    IF config.proxy_service = Some("scraperapi")
    THEN IF config.scraperapi_key = None THEN "requests" ELSE "scraperapi"
    ELSE IF config.use_selenium THEN "selenium" ELSE "requests"

\* _search_with_selenium starts a browser unless the driver cannot be
\* installed or started
BrowserStarted(strategy, fetch) ==
    strategy = "selenium" /\ fetch.kind # "driver_error"

\* a quit placed at the end of the try block, before the return
BrowserQuitOnReturn(strategy, fetch) ==
    BrowserStarted(strategy, fetch) /\ fetch.kind = "page"

\* the browser a call started is quit in the finally clause, on every path
BrowserQuit(strategy, fetch) == BrowserStarted(strategy, fetch)

\* what a search call returns for what its fetch met: an exception that
\* leaves the call (raised), or the value returned; open is the number of
\* browsers the call leaves running.
\*   "driver_error": the browser cannot be started (selenium only);
\*   "error":        transport error, timeout or non-success status;
\*   "parse_error":  the page was fetched and building the parse tree raises;
\*   "page":         the page was fetched and parsed.
SearchGoogle(strategy, fetch, target_domain) ==
    LET open == IF BrowserStarted(strategy, fetch) /\ ~BrowserQuit(strategy, fetch)
                THEN 1 ELSE 0
    IN  IF strategy = "selenium" /\ fetch.kind = "driver_error"
        THEN [raised |-> TRUE, value |-> None, open |-> open]
        ELSE IF fetch.kind = "page"
        THEN [raised |-> FALSE, value |-> ParseGoogleResults(fetch.page, target_domain),
              open |-> open]
        ELSE [raised |-> FALSE, value |-> None, open |-> open]

(***************************************************************************)
(* Inputs of the model.                                                    *)
(***************************************************************************)
\* the (client_id, domain, keyword) triples of the configuration
ConfigKeys ==
    UNION {{<<ConfigClients[i].client_id, ConfigClients[i].domain,
              ConfigClients[i].keywords[j]>> :
                j \in 1..Len(ConfigClients[i].keywords)} : i \in 1..Len(ConfigClients)}

UrlA == Url(<<"www.", "a.com">>, <<"/p">>)

UrlB == Url(<<"b.com">>, <<>>)

\* the observations a caller may hand to save_ranking directly
Observations ==
    {[position |-> None, url |-> None, title |-> None, snippet |-> None]} \cup
    {[position |-> Some(p), url |-> Some(UrlA), title |-> Some("t"), snippet |-> Some("")] :
        p \in 1..MaxPos}

\* the result entries a fetched page is made of
Divs ==
    { [href |-> None, h3 |-> None, sncf |-> None, vwic |-> None],
      [href |-> Some(Url(<<"www.", "google.com">>, <<"/maps">>)),
       h3 |-> Some("t"), sncf |-> None, vwic |-> None],
      [href |-> Some(UrlA), h3 |-> Some("t"), sncf |-> None, vwic |-> Some("s")],
      [href |-> Some(UrlB), h3 |-> None, sncf |-> None, vwic |-> None] }

RECURSIVE SeqsUpTo(_, _)
SeqsUpTo(S, n) ==
    IF n = 0 THEN {<<>>}
    ELSE LET shorter == SeqsUpTo(S, n - 1)
         IN  shorter \cup {Append(q, x) : q \in shorter, x \in S}

Pages == {[g |-> divs, sokoban |-> <<>>] : divs \in SeqsUpTo(Divs, MaxPage)}

\* what the fetch of a search call can meet
Fetches(strategy) ==
    {[kind |-> "page", page |-> pg] : pg \in Pages}
    \cup {[kind |-> "error", page |-> None], [kind |-> "parse_error", page |-> None]}
    \cup IF strategy = "selenium" THEN {[kind |-> "driver_error", page |-> None]} ELSE {}

\* a search call: what the fetch met and what the call gives back
SearchOutcomes(strategy, target_domain) ==
    {[fetch |-> f.kind, result |-> SearchGoogle(strategy, f, target_domain)] :
        f \in Fetches(strategy)}

ScrapingConfigs ==
    { [proxy_service |-> None, scraperapi_key |-> None, use_selenium |-> FALSE,
       delay_between_requests |-> Some(5)],
      [proxy_service |-> None, scraperapi_key |-> None, use_selenium |-> TRUE,
       delay_between_requests |-> Some(5)],
      [proxy_service |-> Some("scraperapi"), scraperapi_key |-> Some("key"),
       use_selenium |-> FALSE, delay_between_requests |-> Some(5)] }

(***************************************************************************)
(* tracker.py: track_all                                                   *)
(***************************************************************************)
\* the whole list, test mode or not
RunKeywordsAll(client, test) == client.keywords

\* the keywords of a client the run loops over: keywords[:1] in test mode
RunKeywords(client, test) ==
    IF test /\ Len(client.keywords) > 1
    THEN SubSeq(client.keywords, 1, 1)
    ELSE client.keywords

\* the loop position <<i, j>> or, when client i has no keyword j, the first
\* position after it; i = Len(cl) + 1 when both loops are over
RECURSIVE LoopPosition(_, _, _, _)
LoopPosition(cl, test, i, j) ==
    IF i > Len(cl) THEN <<Len(cl) + 1, 1>>
    ELSE IF j <= Len(RunKeywords(cl[i], test)) THEN <<i, j>>
    ELSE LoopPosition(cl, test, i + 1, 1)

\* an exception that leaves the loops and ends the run
LoopAbortOnError(cl, test, i, j, raised) ==
    IF raised THEN <<Len(cl) + 1, 1>> ELSE LoopPosition(cl, test, i, j + 1)

\* where the loops go after the check at <<i, j>>: the except branch falls
\* through to the next iteration like the normal path
LoopAdvance(cl, test, i, j, raised) == LoopPosition(cl, test, i, j + 1)

\* the sleep that ends the try block: skipped in test mode, and not reached
\* when the block ends with an exception
PacingApplied(test, error) == ~test /\ error = None

\* reading the delay raises KeyError when the scraping section has no
\* delay_between_requests; the read is under "if not test_mode"
PacingRaises(config, test) == ~test /\ config.delay_between_requests = None

\* successful += 1 follows the save_ranking call and precedes the sleep
CountedSuccessful(raised, save_raised, pacing_raised) == ~raised /\ ~save_raised

\* one iteration of the keyword loop: scrape, save, count, sleep
CheckKeyword ==
    /\ pc = "running"
    /\ ci <= Len(clients)
    /\ nchecks < MaxChecks
    /\ \E met \in SearchOutcomes(scraper, clients[ci].domain), fault \in Faults :
          LET client == clients[ci]
              keyword == RunKeywords(client, test_mode)[ki]
              result == met.result
              called == ~result.raised
              found == result.value # None
              position == IF found THEN Some(result.value[1].position) ELSE None
              url == IF found THEN Some(result.value[1].url) ELSE None
              title == IF found THEN Some(result.value[1].title) ELSE None
              snippet == IF found THEN Some(result.value[1].snippet) ELSE None
              \* the exception the try block ends with, if any
              save_raised == called /\ SaveReturn(fault) = "raise"
              pacing_raised == called /\ ~save_raised /\ PacingRaises(scraping, test_mode)
              error == IF result.raised THEN Some("scrape")
                       ELSE IF save_raised THEN Some("storage")
                       ELSE IF pacing_raised THEN Some("pacing")
                       ELSE None
              next == LoopAdvance(clients, test_mode, ci, ki, error # None)
          IN  /\ IF called THEN fault = "none" \/ nfaults < MaxFaults
                           ELSE fault = "none"
              /\ nfaults' = IF fault = "none" THEN nfaults ELSE nfaults + 1
              /\ IF ~called
                 THEN UNCHANGED <<storeVars, histVars>>
                 ELSE /\ SaveRanking(client.client_id, client.domain, keyword,
                                     position, url, title, snippet, fault)
                      /\ NoteSave(client.client_id, client.domain, keyword,
                                  position, url, title, snippet, fault)
              /\ total_keywords' = total_keywords + 1
              /\ successful' = IF CountedSuccessful(result.raised, save_raised, pacing_raised)
                               THEN successful + 1 ELSE successful
              /\ failed' = IF error # None THEN failed + 1 ELSE failed
              /\ errors' = IF error # None
                           THEN Append(errors, [keyword |-> keyword, error |-> error[1]])
                           ELSE errors
              /\ log' = Append(log, [client_id |-> client.client_id,
                                     domain |-> client.domain,
                                     keyword |-> keyword,
                                     fetch |-> met.fetch,
                                     raised |-> result.raised,
                                     position |-> position,
                                     fault |-> fault,
                                     committed |-> called /\ RowCommitted(fault),
                                     paced |-> PacingApplied(test_mode, error),
                                     day |-> today])
              /\ browsers' = browsers + result.open
              /\ ci' = next[1]
              /\ ki' = next[2]
    /\ nchecks' = nchecks + 1
    /\ UNCHANGED <<today, scraping, scraper, pc, test_mode, clients, shown, mode,
                   run_keyword, original_clients, out, parseVars>>

\* track_all up to the loops: the counters start at zero
StartRun ==
    /\ pc \in {"idle", "done", "stopped", "crashed"}
    /\ nchecks < MaxChecks
    /\ \E test \in BOOLEAN :
          LET first == LoopPosition(clients, test, 1, 1)
          IN  /\ test_mode' = test
              /\ ci' = first[1]
              /\ ki' = first[2]
    /\ pc' = "running"
    /\ total_keywords' = 0
    /\ successful' = 0
    /\ failed' = 0
    /\ errors' = <<>>
    /\ log' = <<>>
    /\ shown' = <<>>
    /\ mode' = "all"
    /\ out' = None
    /\ UNCHANGED <<storeVars, today, histVars, scraping, scraper, clients, nchecks,
                   nfaults, browsers, run_keyword, original_clients, parseVars>>

\* the run record written inside the client loop, after each client
FinishRunInsideLoop ==
    /\ pc = "running"
    /\ ki = 1
    /\ log # <<>>
    /\ tracking_runs' =
          Append(tracking_runs,
                 TrackingRunRow(total_keywords, successful, failed,
                                IF errors # <<>> THEN errors ELSE None, today))
    /\ last' = [op |-> "log_tracking_run", fault |-> "none", row |-> None]
    /\ pc' = IF ci > Len(clients) THEN "logged" ELSE "running"
    /\ UNCHANGED <<rankings, rank_seq, alerts, today, saved, scraping, scraper,
                   test_mode, clients, ci, ki, total_keywords, successful, failed,
                   errors, nchecks, nfaults, log, shown, browsers, mode,
                   run_keyword, original_clients, out, parseVars>>

\* track_all after the loops: the run is logged
FinishRun ==
    /\ pc = "running"
    /\ ci > Len(clients)
    /\ tracking_runs' =
          Append(tracking_runs,
                 TrackingRunRow(total_keywords, successful, failed,
                                IF errors # <<>> THEN errors ELSE None, today))
    /\ last' = [op |-> "log_tracking_run", fault |-> "none", row |-> None]
    /\ pc' = "logged"
    /\ UNCHANGED <<rankings, rank_seq, alerts, today, saved, scraping, scraper,
                   test_mode, clients, ci, ki, total_keywords, successful, failed,
                   errors, nchecks, nfaults, log, shown, browsers, mode,
                   run_keyword, original_clients, out, parseVars>>

\* track_all at its end: the unacknowledged alerts are fetched and printed
ShowAlerts ==
    /\ pc = "logged"
    /\ shown' = UnacknowledgedAlerts(alerts)
    /\ pc' = IF mode = "client" THEN "restoring" ELSE "done"
    /\ UNCHANGED <<storeVars, today, histVars, scraping, scraper, test_mode, clients,
                   ci, ki, total_keywords, successful, failed, errors, nchecks,
                   nfaults, log, browsers, mode, run_keyword, original_clients, out,
                   parseVars>>

\* acknowledge_alerts, called from outside the run
Acknowledge ==
    /\ alerts # <<>>
    /\ alerts' = AcknowledgeAlerts(alerts)
    /\ last' = [op |-> "acknowledge_alerts", fault |-> "none", row |-> None]
    /\ UNCHANGED <<rankings, rank_seq, tracking_runs, today, saved, runVars, parseVars>>

(***************************************************************************)
(* The specifications.                                                     *)
(***************************************************************************)
(***************************************************************************)
(* tracker.py: track_client, track_keyword, and a run that is interrupted  *)
(***************************************************************************)
\* the arguments the entry points are called with
ClientArgs == {"c1", "c2", "c3", "cX"}

KeywordArgs == {"k1", "k2", "k9"}

\* client_id in self.config['clients']
Configured(cl, client_id) == \E i \in 1..Len(cl) : cl[i].client_id = client_id

\* {client_id: original_clients[client_id]}
OnlyClient(cl, client_id) == SelectSeq(cl, LAMBDA c : c.client_id = client_id)

\* track_client up to the loops of its track_all: an unknown client id is
\* reported and nothing else happens; else the mapping is narrowed to the
\* client and track_all() starts, not in test mode
StartClientRun ==
    /\ pc \in {"idle", "done", "stopped", "crashed"}
    /\ nchecks < MaxChecks
    /\ Len(tracking_runs) < MaxRuns
    /\ \E client_id \in ClientArgs :
          IF ~Configured(clients, client_id)
          THEN /\ out' = Some("client_not_found")
               /\ pc' = "done"
               /\ UNCHANGED <<clients, original_clients, test_mode, ci, ki,
                              total_keywords, successful, failed, errors>>
          ELSE LET narrowed == OnlyClient(clients, client_id)
                   first == LoopPosition(narrowed, FALSE, 1, 1)
               IN  /\ original_clients' = clients
                   /\ clients' = narrowed
                   /\ test_mode' = FALSE
                   /\ ci' = first[1]
                   /\ ki' = first[2]
                   /\ pc' = "running"
                   /\ total_keywords' = 0
                   /\ successful' = 0
                   /\ failed' = 0
                   /\ errors' = <<>>
                   /\ out' = None
    /\ mode' = "client"
    /\ log' = <<>>
    /\ shown' = <<>>
    /\ UNCHANGED <<storeVars, today, histVars, scraping, scraper, nchecks, nfaults,
                   browsers, run_keyword, parseVars>>

\* self.config['clients'] = original_clients
Restored(narrowed, original) == original

\* track_client after its track_all returned: the mapping is put back
RestoreClients ==
    /\ pc = "restoring"
    /\ clients' = Restored(clients, original_clients)
    /\ pc' = "done"
    /\ UNCHANGED <<storeVars, today, histVars, scraping, scraper, test_mode, ci, ki,
                   total_keywords, successful, failed, errors, nchecks, nfaults, log,
                   shown, browsers, mode, run_keyword, original_clients, out,
                   parseVars>>

\* one transaction held open over the run: the interruption rolls back the
\* rows the checks of the run wrote
RowsRolledBack(rows, checks) ==
    {r \in rows :
        ~\E i \in 1..Len(checks) :
            /\ checks[i].committed
            /\ r.client_id = checks[i].client_id
            /\ r.keyword = checks[i].keyword
            /\ r.check_date = checks[i].day}

\* the rows held after an interruption between two checks: every
\* save_ranking call committed and closed its own connection before it
\* returned, no transaction is open
RowsAfterInterrupt(rows, checks) == rows

\* a run of track_all is interrupted between two keyword checks: the
\* KeyboardInterrupt is no Exception, it leaves track_all and its caller
Cancel ==
    /\ pc = "running"
    /\ log # <<>>
    /\ ci <= Len(clients)
    /\ pc' = "stopped"
    /\ out' = Some("interrupted")
    /\ rankings' = RowsAfterInterrupt(rankings, log)
    /\ UNCHANGED <<rank_seq, alerts, tracking_runs, today, histVars, scraping, scraper,
                   test_mode, clients,
                   ci, ki, total_keywords, successful, failed, errors, nchecks,
                   nfaults, log, shown, browsers, mode, run_keyword,
                   original_clients, parseVars>>

\* keyword in client_data['keywords']
Tracks(client, keyword) ==
    \E j \in 1..Len(client.keywords) : client.keywords[j] = keyword

\* the first client from index i on that tracks the keyword, Len(cl) + 1
\* when there is none
RECURSIVE NextTracking(_, _, _)
NextTracking(cl, keyword, i) ==
    IF i > Len(cl) THEN Len(cl) + 1
    ELSE IF Tracks(cl[i], keyword) THEN i
    ELSE NextTracking(cl, keyword, i + 1)

\* track_keyword up to its loop
StartKeywordRun ==
    /\ pc \in {"idle", "done", "stopped", "crashed"}
    /\ nchecks < MaxChecks
    /\ \E keyword \in KeywordArgs :
          /\ run_keyword' = Some(keyword)
          /\ ci' = NextTracking(clients, keyword, 1)
    /\ ki' = 1
    /\ mode' = "keyword"
    /\ pc' = "kw_running"
    /\ log' = <<>>
    /\ out' = None
    /\ UNCHANGED <<storeVars, today, histVars, scraping, scraper, test_mode, clients,
                   total_keywords, successful, failed, errors, nchecks, nfaults,
                   shown, browsers, original_clients, parseVars>>

\* the loop of track_keyword has no try: an exception of the scrape or of
\* the save leaves track_keyword
KeywordRunAfter(raised) == IF raised THEN "crashed" ELSE "kw_running"

\* one iteration of the loop of track_keyword for a client that tracks the
\* keyword: scrape, save
CheckKeywordOnly ==
    /\ pc = "kw_running"
    /\ ci <= Len(clients)
    /\ nchecks < MaxChecks
    /\ \E met \in SearchOutcomes(scraper, clients[ci].domain), fault \in Faults :
          LET client == clients[ci]
              keyword == run_keyword[1]
              result == met.result
              called == ~result.raised
              found == result.value # None
              position == IF found THEN Some(result.value[1].position) ELSE None
              url == IF found THEN Some(result.value[1].url) ELSE None
              title == IF found THEN Some(result.value[1].title) ELSE None
              snippet == IF found THEN Some(result.value[1].snippet) ELSE None
              save_raised == called /\ SaveReturn(fault) = "raise"
              raised == result.raised \/ save_raised
          IN  /\ IF called THEN fault = "none" \/ nfaults < MaxFaults
                           ELSE fault = "none"
              /\ nfaults' = IF fault = "none" THEN nfaults ELSE nfaults + 1
              /\ IF ~called
                 THEN UNCHANGED <<storeVars, histVars>>
                 ELSE /\ SaveRanking(client.client_id, client.domain, keyword,
                                     position, url, title, snippet, fault)
                      /\ NoteSave(client.client_id, client.domain, keyword,
                                  position, url, title, snippet, fault)
              /\ log' = Append(log, [client_id |-> client.client_id,
                                     domain |-> client.domain,
                                     keyword |-> keyword,
                                     fetch |-> met.fetch,
                                     raised |-> result.raised,
                                     position |-> position,
                                     fault |-> fault,
                                     committed |-> called /\ RowCommitted(fault),
                                     paced |-> FALSE,
                                     day |-> today])
              /\ browsers' = browsers + result.open
              /\ pc' = KeywordRunAfter(raised)
              /\ out' = IF KeywordRunAfter(raised) = "crashed"
                        THEN Some("exception") ELSE out
              /\ ci' = IF KeywordRunAfter(raised) = "crashed" THEN ci
                       ELSE NextTracking(clients, keyword, ci + 1)
    /\ nchecks' = nchecks + 1
    /\ UNCHANGED <<today, scraping, scraper, test_mode, clients, ki, total_keywords,
                   successful, failed, errors, shown, mode, run_keyword,
                   original_clients, parseVars>>

\* track_keyword after its loop: "not found in any client configuration"
\* when no client tracks the keyword
EndKeywordRun ==
    /\ pc = "kw_running"
    /\ ci > Len(clients)
    /\ out' = IF \E i \in 1..Len(clients) : Tracks(clients[i], run_keyword[1])
              THEN None ELSE Some("keyword_not_found")
    /\ pc' = "done"
    /\ UNCHANGED <<storeVars, today, histVars, scraping, scraper, test_mode, clients,
                   ci, ki, total_keywords, successful, failed, errors, nchecks,
                   nfaults, log, shown, browsers, mode, run_keyword,
                   original_clients, parseVars>>

\* faults is the number of storage faults already counted against MaxFaults
InitWith(config, faults) ==
    /\ rankings = {}
    /\ rank_seq = 0
    /\ alerts = <<>>
    /\ tracking_runs = <<>>
    /\ today = 1
    /\ last = [op |-> "init", fault |-> "none", row |-> None]
    /\ saved = <<>>
    /\ scraping = config
    /\ scraper = CreateScraper(scraping)
    /\ pc = "idle"
    /\ test_mode = FALSE
    /\ clients = ConfigClients
    /\ ci = 1
    /\ ki = 1
    /\ total_keywords = 0
    /\ successful = 0
    /\ failed = 0
    /\ errors = <<>>
    /\ nchecks = 0
    /\ nfaults = faults
    /\ log = <<>>
    /\ shown = <<>>
    /\ browsers = 0
    /\ mode = "all"
    /\ run_keyword = None
    /\ original_clients = ConfigClients
    /\ out = None
    /\ parse_in = None
    /\ parse_out = None

Init == \E config \in ScrapingConfigs : InitWith(config, 0)

\* the calendar day advances, between two runs; days on which nothing was
\* saved leave no trace in the store and are not counted
Tick ==
    /\ pc \in {"idle", "done", "stopped", "crashed"}
    /\ \E r \in rankings : r.check_date = today
    /\ today' = today + 1
    /\ UNCHANGED <<storeVars, histVars, runVars, parseVars>>

Next == Tick \/ StartRun \/ CheckKeyword \/ FinishRun \/ ShowAlerts \/ Acknowledge

\* the program: orchestrator runs over the days
Spec == Init /\ [][Next]_vars

\* the three entry points on an orchestrator with the rendered-browser
\* strategy, and runs that are interrupted
SeleniumConfig ==
    [proxy_service |-> None, scraperapi_key |-> None, use_selenium |-> TRUE,
     delay_between_requests |-> Some(5)]

\* the store of these runs meets no fault
InitEntry == InitWith(SeleniumConfig, MaxFaults)

NextEntry ==
    \/ Next
    \/ StartClientRun
    \/ RestoreClients
    \/ Cancel
    \/ StartKeywordRun
    \/ CheckKeywordOnly
    \/ EndKeywordRun

SpecEntry == InitEntry /\ [][NextEntry]_vars

\* full runs with the rendered-browser strategy that may be interrupted
InitCancel == InitWith(SeleniumConfig, 0)

NextCancel == Next \/ Cancel

SpecCancel == InitCancel /\ [][NextCancel]_vars

\* a healthy store called directly through save_ranking
StoreSave ==
    \E key \in ConfigKeys, obs \in Observations :
        /\ rank_seq < MaxSaves
        /\ SaveRanking(key[1], key[2], key[3], obs.position, obs.url, obs.title,
                       obs.snippet, "none")
        /\ NoteSave(key[1], key[2], key[3], obs.position, obs.url, obs.title,
                    obs.snippet, "none")
        /\ UNCHANGED <<today, runVars, parseVars>>

InitStore == Init /\ scraping.proxy_service = None /\ ~scraping.use_selenium

NextStore == Tick \/ StoreSave

SpecStore == InitStore /\ [][NextStore]_vars

\* the scraping section has no delay_between_requests
NoDelayConfig ==
    [proxy_service |-> None, scraperapi_key |-> None, use_selenium |-> FALSE,
     delay_between_requests |-> None]

InitNoDelay == InitWith(NoDelayConfig, 0)

\* the program started with that configuration
SpecNoDelay == InitNoDelay /\ [][Next]_vars

\* the observations of the histories: absent, position 2, position 9
HistoryObservations ==
    {obs \in Observations : obs.position \in {None, Some(2), Some(9)}}

\* a healthy store called directly through save_ranking, over more saves
\* and fewer positions
HistorySave ==
    \E key \in ConfigKeys, obs \in HistoryObservations :
        /\ rank_seq < MaxHistory
        /\ SaveRanking(key[1], key[2], key[3], obs.position, obs.url, obs.title,
                       obs.snippet, "none")
        /\ NoteSave(key[1], key[2], key[3], obs.position, obs.url, obs.title,
                    obs.snippet, "none")
        /\ UNCHANGED <<today, runVars, parseVars>>

NextHistory == Tick \/ HistorySave

SpecHistory == InitStore /\ [][NextHistory]_vars

\* the delegated scraping API is selected and the configuration has no key
NoKeyConfig ==
    [proxy_service |-> Some("scraperapi"), scraperapi_key |-> None, use_selenium |-> FALSE,
     delay_between_requests |-> Some(5)]

InitNoKey == InitWith(NoKeyConfig, 0)

\* the program started with that configuration
SpecNoKey == InitNoKey /\ [][Next]_vars

\* the result entries handed to the parser when it is called directly
ParseDivs ==
    Divs \cup
    { [href |-> Some(Url(<<"b.com">>, <<"?q=google.com">>)),
       h3 |-> Some("t"), sncf |-> Some("s"), vwic |-> None],
      [href |-> Some(Url(<<"[", "a.com">>, <<>>)), h3 |-> None, sncf |-> None, vwic |-> None],
      [href |-> Some(Url(<<"WWW.", "A.com">>, <<>>)), h3 |-> None, sncf |-> None, vwic |-> None],
      [href |-> Some(Url(<<"nota.com">>, <<>>)), h3 |-> None, sncf |-> None, vwic |-> None] }

\* the pages handed to the parser: the entries under either selector
ParsePages ==
    {[g |-> divs, sokoban |-> <<>>] : divs \in SeqsUpTo(ParseDivs, MaxPage)} \cup
    {[g |-> <<>>, sokoban |-> divs] : divs \in SeqsUpTo(ParseDivs, MaxPage)}

ParseTargets == {"a.com", "A.com", "b.com"}

\* _parse_google_results called on a page for a target domain
ParseCall ==
    \E page \in ParsePages, target_domain \in ParseTargets :
        /\ parse_in = None
        /\ parse_in' = Some([page |-> page, target_domain |-> target_domain])
        /\ parse_out' = Some(ParseGoogleResults(page, target_domain))
        /\ UNCHANGED <<storeVars, today, histVars, runVars>>

SpecParse == InitStore /\ [][ParseCall]_vars

(***************************************************************************)
(* Properties of the ranking store.                                        *)
(***************************************************************************)
\* the step is a save_ranking call that committed its row and met no fault
SaveStep ==
    /\ rank_seq' = rank_seq + 1
    /\ last'.op = "save_ranking"
    /\ last'.fault = "none"

\* the rows a classification may compare the new row with: same client and
\* keyword, strictly earlier day, no row of that key on a day in between
PriorRows(rows, new) ==
    {q \in rows :
        /\ q.client_id = new.client_id
        /\ q.keyword = new.keyword
        /\ q.check_date < new.check_date
        /\ \A z \in rows :
              (z.client_id = new.client_id /\ z.keyword = new.keyword
                 /\ z.check_date < new.check_date) => z.check_date <= q.check_date}

\* the step appended exactly one alert: this type and change, for the new
\* row's key, with these positions, unacknowledged
Emits(new, type, old_position, new_position, change) ==
    /\ Len(alerts') = Len(alerts) + 1
    /\ SubSeq(alerts', 1, Len(alerts)) = alerts
    /\ LET a == alerts'[Len(alerts')]
       IN  /\ a.alert_type = type
           /\ a.client_id = new.client_id
           /\ a.keyword = new.keyword
           /\ a.old_position = old_position
           /\ a.new_position = new_position
           /\ a.change = change
           /\ a.acknowledged = FALSE

Present(row) == row.position # None

CrossesTop(n, row_a, row_b) == (row_a.position[1] <= n) # (row_b.position[1] <= n)

\* C1: after any sequence of saves there is at most one row per (client_id,
\* keyword, check_date), and it is the row of the most recent committed save
\* for that key (position, url, title and snippet included): a second save
\* replaces the first
C1_UpsertOneRowPerKey ==
    /\ \A r1, r2 \in rankings : SameKey(r1, r2) => r1 = r2
    /\ \A k \in DOMAIN saved :
          \E r \in rankings :
              /\ <<r.client_id, r.keyword, r.check_date>> = k
              /\ r = saved[k]
    /\ Cardinality(rankings) = Cardinality(DOMAIN saved)

\* C1 witness: a key was saved a second time on one day, the first save
\* "not found" and the second at position 2, and one row is held for it
C1_Witness ==
    /\ rank_seq = 2
    /\ Cardinality(rankings) = 1
    /\ last.op = "save_ranking"
    /\ last.row # None
    /\ last.row[1].position = Some(2)
    /\ last.row[1] \in rankings

\* C2: with a prior record, both positions present and |old - new| >= 5, the
\* save emits major_movement with change = old - new, also when the top-10
\* or top-3 boundary is crossed
C2_MajorMovementFirst ==
    [][SaveStep =>
        LET new == last'.row[1]
        IN  \A q \in PriorRows(rankings, new) :
               (Present(q) /\ Present(new)
                  /\ Abs(q.position[1] - new.position[1]) >= 5)
               => Emits(new, "major_movement", q.position, new.position,
                        q.position[1] - new.position[1])]_vars

\* C2 witness: the transition 20 -> 10 was saved and gave major_movement
\* with change 10
C2_Witness ==
    /\ last.op = "save_ranking"
    /\ alerts # <<>>
    /\ LET a == alerts[Len(alerts)]
       IN  /\ a.alert_type = "major_movement"
           /\ a.old_position = Some(20)
           /\ a.new_position = Some(10)
           /\ a.change = 10

\* C3: with a prior record, both positions present and |old - new| < 5, a
\* transition from old <= 10 to new > 10 emits exited_top_10 and one from
\* old > 10 to new <= 10 emits entered_top_10, with change = old - new
C3_TopTenBoundary ==
    [][SaveStep =>
        LET new == last'.row[1]
        IN  \A q \in PriorRows(rankings, new) :
               (Present(q) /\ Present(new)
                  /\ Abs(q.position[1] - new.position[1]) < 5)
               => LET o == q.position[1]
                      n == new.position[1]
                  IN  /\ (o <= 10 /\ n > 10)
                         => Emits(new, "exited_top_10", q.position, new.position, o - n)
                      /\ (o > 10 /\ n <= 10)
                         => Emits(new, "entered_top_10", q.position, new.position, o - n)]_vars

\* C3 witness: the transition 11 -> 9 was saved and gave entered_top_10
\* with change 2
C3_Witness ==
    /\ last.op = "save_ranking"
    /\ Len(alerts) = 1
    /\ alerts[1].alert_type = "entered_top_10"
    /\ alerts[1].old_position = Some(11)
    /\ alerts[1].new_position = Some(9)
    /\ alerts[1].change = 2

\* C4: a prior record with absent position and a new position p give
\* new_entry with change = -p; a prior position q and an absent new position
\* give dropped_out with change = q
C4_NewEntryDroppedOut ==
    [][SaveStep =>
        LET new == last'.row[1]
        IN  \A q \in PriorRows(rankings, new) :
               /\ (~Present(q) /\ Present(new))
                  => Emits(new, "new_entry", None, new.position, -new.position[1])
               /\ (Present(q) /\ ~Present(new))
                  => Emits(new, "dropped_out", q.position, None, q.position[1])]_vars

\* C4 witness: the transition 5 -> absent was saved and gave dropped_out
\* with change 5
C4_Witness ==
    /\ last.op = "save_ranking"
    /\ Len(alerts) = 1
    /\ alerts[1].alert_type = "dropped_out"
    /\ alerts[1].old_position = Some(5)
    /\ alerts[1].new_position = None
    /\ alerts[1].change = 5

\* C5: a save leaves the alerts table as it is when the prior and the new
\* position are both absent, and when both are present with |old - new| < 5
\* and neither the top-10 nor the top-3 boundary crossed
C5_NoAlertZone ==
    [][SaveStep =>
        LET new == last'.row[1]
        IN  \A q \in PriorRows(rankings, new) :
               (\/ ~Present(q) /\ ~Present(new)
                \/ /\ Present(q) /\ Present(new)
                   /\ Abs(q.position[1] - new.position[1]) < 5
                   /\ ~CrossesTop(10, q, new)
                   /\ ~CrossesTop(3, q, new))
               => alerts' = alerts]_vars

\* C5 witness: 15 -> 17 was saved for a key and no alert exists
C5_Witness ==
    /\ last.op = "save_ranking"
    /\ last.fault = "none"
    /\ last.row[1].position = Some(17)
    /\ \E q \in PriorRows(rankings, last.row[1]) : q.position = Some(15)
    /\ alerts = <<>>

\* C6: a save for a (client_id, keyword) without a record of a strictly
\* earlier day creates no alert, whatever the position, also when the key is
\* saved again on that first day
C6_FirstObservationNoAlert ==
    [][SaveStep =>
        LET new == last'.row[1]
        IN  (~\E q \in rankings : /\ q.client_id = new.client_id
                                  /\ q.keyword = new.keyword
                                  /\ q.check_date < new.check_date)
            => alerts' = alerts]_vars

\* C6 witness: a key was saved twice on its first day, absent then present,
\* and no alert exists
C6_Witness ==
    /\ rank_seq = 2
    /\ Cardinality(rankings) = 1
    /\ last.op = "save_ranking"
    /\ last.row[1].position = Some(1)
    /\ last.row[1].check_date = 1
    /\ alerts = <<>>

(***************************************************************************)
(* Properties of the orchestration loop.                                   *)
(***************************************************************************)
\* the (client_id, keyword) pairs of the configuration, clients in file
\* order and each client's keywords in list order
RECURSIVE ConfigOrderFrom(_)
ConfigOrderFrom(i) ==
    IF i > Len(ConfigClients) THEN <<>>
    ELSE [j \in 1..Len(ConfigClients[i].keywords) |->
             <<ConfigClients[i].client_id, ConfigClients[i].keywords[j]>>]
         \o ConfigOrderFrom(i + 1)

ConfigOrder == ConfigOrderFrom(1)

\* the (client_id, keyword) pairs checked so far in the run, in order
LogKeys == [i \in 1..Len(log) |-> <<log[i].client_id, log[i].keyword>>]

\* the checks of the run whose fetch failed: the page was not obtained
FailedFetches == {i \in 1..Len(log) : log[i].fetch \in {"error", "driver_error"}}

\* a ranking row is held for the key of check i and the day of that check
Persisted(i) ==
    \E r \in rankings :
        /\ r.client_id = log[i].client_id
        /\ r.keyword = log[i].keyword
        /\ r.check_date = log[i].day

ErrorLogLen(run) == IF run.error_log = None THEN 0 ELSE Len(run.error_log[1])

\* C7: a full run over N keywords of which exactly F scrapes fail logs
\* total_keywords = N, successful_checks = N - F, failed_checks = F and F
\* error entries, and the N - F other observations are persisted (stated
\* for the runs that meet no storage fault)
C7_RunCountsScrapeFailures ==
    (pc = "done" /\ ~test_mode /\ \A i \in 1..Len(log) : log[i].fault = "none")
    => LET N == Len(log)
           F == Cardinality(FailedFetches)
           run == tracking_runs[Len(tracking_runs)]
       IN  /\ run.total_keywords = N
           /\ run.successful_checks = N - F
           /\ run.failed_checks = F
           /\ ErrorLogLen(run) = F
           /\ \A i \in 1..N : i \notin FailedFetches => Persisted(i)

\* C8: a fetch failure is never treated as "not found": the check of a
\* keyword whose fetch failed saves no ranking row and is not counted in
\* successful_checks
C8_FetchFailureIsNotNotFound ==
    /\ \A i \in FailedFetches : ~log[i].committed
    /\ successful <= Len(log) - Cardinality(FailedFetches)

\* C9: in a full run the keywords of all clients are checked once each, in
\* configuration order, whatever earlier checks met: what has been checked
\* is at every moment the first part of the configuration's order, and all
\* of it when the loops are over
C9_EveryKeywordOnceInOrder ==
    (pc \in {"running", "logged", "done"} /\ ~test_mode)
    => /\ Len(log) <= Len(ConfigOrder)
       /\ LogKeys = SubSeq(ConfigOrder, 1, Len(log))
       /\ (pc \in {"logged", "done"} \/ ci > Len(clients)) => LogKeys = ConfigOrder
       /\ ci <= Len(clients)
          => /\ Len(log) < Len(ConfigOrder)
             /\ ConfigOrder[Len(log) + 1] =
                   <<clients[ci].client_id, clients[ci].keywords[ki]>>

\* C9 witness: a full run ended in which the first check raised and the
\* second met a fetch error, and all three keywords were checked
C9_Witness ==
    /\ pc = "done"
    /\ ~test_mode
    /\ Len(log) = 3
    /\ log[1].raised
    /\ log[2].fetch = "error"
    /\ log[3].position = Some(1)
    /\ failed >= 1

\* C10: at the end of a run, for every keyword checked either a ranking row
\* for that (client_id, keyword, day of the check) is held or the error list
\* has an entry for the keyword
C10_PersistedOrInErrorList ==
    pc = "done"
    => \A i \in 1..Len(log) :
          \/ Persisted(i)
          \/ \E j \in 1..Len(errors) : errors[j].keyword = log[i].keyword

(***************************************************************************)
(* Properties of the store under failure, of alerts and of run records.    *)
(***************************************************************************)
\* the step is a save_ranking call during which the store failed
FailedSaveStep ==
    /\ nfaults' = nfaults + 1
    /\ last'.op = "save_ranking"
    /\ last'.fault # "none"

\* the failed saves leave the alerts table as it was
FailedSaveKeepsAlerts == [][FailedSaveStep => alerts' = alerts]_vars

\* C11: when the store fails while a ranking is saved, the save returns
\* false and raises nothing to its caller, and the alerts table after the
\* call is equal to the alerts table before it
C11_FailedSaveReturnsFalse ==
    [][FailedSaveStep => (SaveReturn(last'.fault) = "False" /\ alerts' = alerts)]_vars

\* C12: an alert is created unacknowledged; acknowledge_alerts leaves no
\* alert outstanding; no step sets an acknowledged alert back, so an alert
\* that has left the outstanding alerts never returns to them
C12_AcknowledgedStays ==
    [][/\ \A i \in (Len(alerts) + 1)..Len(alerts') : alerts'[i].acknowledged = FALSE
       /\ last'.op = "acknowledge_alerts" => UnacknowledgedAlerts(alerts') = <<>>
       /\ \A i \in 1..Len(alerts) :
             alerts[i].acknowledged
             => (i <= Len(alerts') /\ alerts'[i].acknowledged)]_vars

\* C12 witness: an alert was created and then acknowledged, and none is
\* outstanding
C12_Witness ==
    /\ last.op = "acknowledge_alerts"
    /\ Len(alerts) >= 1
    /\ \A i \in 1..Len(alerts) : alerts[i].acknowledged
    /\ UnacknowledgedAlerts(alerts) = <<>>

\* an alert row without its acknowledged flag
AlertFields(a) == [a EXCEPT !.acknowledged = FALSE]

\* C13: alert rows are added only by a ranking save that finds a prior
\* record of the key, one row per save; no step deletes an alert row or
\* changes a field other than acknowledged, and acknowledged is changed by
\* acknowledge_alerts only: the alerts only grow
C13_AlertsOnlyGrow ==
    [][/\ Len(alerts') >= Len(alerts)
       /\ \A i \in 1..Len(alerts) :
             i <= Len(alerts') => AlertFields(alerts'[i]) = AlertFields(alerts[i])
       /\ Len(alerts') > Len(alerts)
          => /\ Len(alerts') = Len(alerts) + 1
             /\ rank_seq' = rank_seq + 1
             /\ last'.op = "save_ranking"
             /\ last'.row # None
             /\ PriorRows(rankings, last'.row[1]) # {}
       /\ (\E i \in 1..Len(alerts) :
              i <= Len(alerts') /\ alerts'[i].acknowledged # alerts[i].acknowledged)
          => last'.op = "acknowledge_alerts"]_vars

\* C13 witness: the alert raised on day 2 for (c1, k1) was acknowledged and
\* holds the fields it was created with
C13_Witness ==
    /\ Len(alerts) = 1
    /\ alerts[1].acknowledged
    /\ alerts[1].client_id = "c1"
    /\ alerts[1].keyword = "k1"
    /\ alerts[1].alert_date = 2
    /\ alerts[1].old_position # None
    /\ last.op = "acknowledge_alerts"
    /\ today = 2

\* the (client_id, keyword) pairs of a test run: the first keyword of every
\* client that has one, clients in file order
RECURSIVE TestOrderFrom(_)
TestOrderFrom(i) ==
    IF i > Len(ConfigClients) THEN <<>>
    ELSE (IF ConfigClients[i].keywords = <<>> THEN <<>>
          ELSE <<(<<ConfigClients[i].client_id, ConfigClients[i].keywords[1]>>)>>)
         \o TestOrderFrom(i + 1)

TestOrder == TestOrderFrom(1)

\* the moves of the orchestrator: a run starts, ends its loops by writing
\* the run record, then fetches the alerts
RunMoves ==
    {<<"idle", "running">>, <<"done", "running">>, <<"running", "logged">>,
     <<"logged", "done">>}

LatestPerKeyword(rows, client_id) ==
    {[keyword |-> r.keyword, position |-> r.position, url |-> r.url,
      check_date |-> r.check_date] :
        r \in {q \in rows :
                 /\ q.client_id = client_id
                 /\ \A z \in rows :
                       (z.client_id = client_id /\ z.keyword = q.keyword)
                       => z.check_date <= q.check_date}}

\* C15: for every client, get_current_rankings returns one entry for each
\* keyword that has a row, and it is the row of that keyword's latest day
C15_CurrentIsLatestPerKeyword ==
    \A c \in {ConfigClients[i].client_id : i \in 1..Len(ConfigClients)} :
        \A res \in GetCurrentRankings(rankings, c) :
            /\ {res[i] : i \in 1..Len(res)} = LatestPerKeyword(rankings, c)
            /\ Len(res) = Cardinality(LatestPerKeyword(rankings, c))

(***************************************************************************)
(* Properties of the scraper.                                              *)
(***************************************************************************)
\* the entry links to the search engine itself: its host is a google.com host
OwnLink(div) ==
    \E i \in 1..Len(div.href[1].netloc) : TokContains(div.href[1].netloc[i], "google.com")

\* an organic entry: it has a link and the link is not the search engine's
Organic(div) == div.href # None /\ ~OwnLink(div)

\* an organic entry whose host matches the target
HostMatches(div, target_domain) ==
    /\ Organic(div)
    /\ ~UrlParseRaises(div.href[1])
    /\ DomainMatches(target_domain, NormalizedHost(div.href[1]))

\* the 1-based count of the organic entries up to and including the first
\* match, or None without a match
ExpectedPosition(divs, target_domain) ==
    LET matches == {i \in 1..Len(divs) : HostMatches(divs[i], target_domain)}
    IN  IF matches = {} THEN None
        ELSE LET first == CHOOSE i \in matches : \A j \in matches : i <= j
             IN  Some([index |-> first,
                       position |-> Cardinality({j \in 1..first : Organic(divs[j])})])

\* C16: the parser returns the 1-based count of the organic entries up to
\* and including the first whose host matches the target, with the link of
\* that entry; entries without a link and the search engine's own links
\* take no position; later matches are ignored; without a match the
\* parser returns "not found"
C16_PositionCountsOrganicEntries ==
    parse_in # None
    => LET divs == SearchDivs(parse_in[1].page)
           expected == ExpectedPosition(divs, parse_in[1].target_domain)
           result == parse_out[1]
       IN  IF expected = None THEN result = None
           ELSE /\ result # None
                /\ result[1].position = expected[1].position
                /\ result[1].url = divs[expected[1].index].href[1]

\* C17: every browser a search call of the rendered-browser strategy
\* started is quit when the call returns, whatever path the call took:
\* between two keyword checks no browser is left open
C17_NoBrowserLeftOpen == browsers = 0

\* C17 witness: the rendered-browser strategy checked three keywords; the
\* first call met a navigation error, the second an exception while the
\* page was parsed, the third found the domain, and no browser is open
C17_Witness ==
    /\ scraper = "selenium"
    /\ Len(log) = 3
    /\ log[1].fetch = "error"
    /\ log[2].fetch = "parse_error"
    /\ log[3].fetch = "page"
    /\ log[3].position # None
    /\ browsers = 0

\* C18: when the delegated scraping API is selected and the configuration
\* has no API key, constructing the strategy ends in a configuration error:
\* no keyword is ever scraped, with the delegated API or with any other
\* strategy
C18_NoKeyNoScrape ==
    (scraping.proxy_service = Some("scraperapi") /\ scraping.scraperapi_key = None)
    => (nchecks = 0 /\ log = <<>>)

(***************************************************************************)
(* Properties of pacing and of test mode.                                  *)
(***************************************************************************)
\* C19: outside test mode a pacing delay lies between every two
\* consecutive keyword checks of a run, whether the earlier of the two
\* found the domain, found nothing or failed
C19_PacedBetweenChecks ==
    ~test_mode => \A i \in 1..(Len(log) - 1) : log[i].paced

\* C20: a test run checks the first keyword of every client that has one
\* and nothing else, in file order, applies no pacing delay, and its run
\* record has total_keywords = the number of clients with a keyword
C20_TestModeFirstKeywordOnly ==
    (test_mode /\ pc \in {"running", "logged", "done"})
    => /\ Len(log) <= Len(TestOrder)
       /\ LogKeys = SubSeq(TestOrder, 1, Len(log))
       /\ \A i \in 1..Len(log) : ~log[i].paced
       /\ pc \in {"logged", "done"}
          => /\ LogKeys = TestOrder
             /\ tracking_runs[Len(tracking_runs)].total_keywords =
                   Cardinality({i \in 1..Len(ConfigClients) :
                                   ConfigClients[i].keywords # <<>>})

\* C20 witness: a test run over the three clients, one of them without
\* keywords, ended with two checks and total_keywords = 2
C20_Witness ==
    /\ test_mode
    /\ pc = "done"
    /\ LogKeys = <<(<<"c1", "k1">>), (<<"c2", "k1">>)>>
    /\ tracking_runs[Len(tracking_runs)].total_keywords = 2

(***************************************************************************)
(* Properties of the entry points.                                         *)
(***************************************************************************)
\* the (client_id, domain, keyword) triples of the configured clients whose
\* keyword list contains the keyword, clients in file order
RECURSIVE KeywordOrderFrom(_, _)
KeywordOrderFrom(keyword, i) ==
    IF i > Len(ConfigClients) THEN <<>>
    ELSE (IF \E j \in 1..Len(ConfigClients[i].keywords) :
                 ConfigClients[i].keywords[j] = keyword
          THEN <<(<<ConfigClients[i].client_id, ConfigClients[i].domain, keyword>>)>>
          ELSE <<>>)
         \o KeywordOrderFrom(keyword, i + 1)

KeywordOrder(keyword) == KeywordOrderFrom(keyword, 1)

\* the (client_id, domain, keyword) triples checked so far in the run
LogTriples == [i \in 1..Len(log) |-> <<log[i].client_id, log[i].domain, log[i].keyword>>]

\* C21: when a single-keyword run has ended, the keyword was scraped and
\* saved once for every configured client that tracks it, with that
\* client's domain, and for no other client; when no client tracks it
\* nothing was scraped or saved and "not found in any configuration" was
\* reported
C21_KeywordRunCoversTrackingClients ==
    (mode = "keyword" /\ pc \in {"done", "crashed"})
    => /\ LogTriples = KeywordOrder(run_keyword[1])
       /\ \A i \in 1..Len(log) : ~log[i].raised
       /\ (KeywordOrder(run_keyword[1]) = <<>>) <=> (out = Some("keyword_not_found"))

\* C22: in every entry mode an error the scrape strategy raises for a
\* check is caught by the orchestrator: it does not leave the entry point
\* and the run goes on with the checks that remain
C22_ScrapeErrorsCaught ==
    [][(Len(log') = Len(log) + 1 /\ log'[Len(log')].raised) => pc' = pc]_vars

\* the save of check i returned True
SavedTrue(i) == ~log[i].raised /\ log[i].fault = "none"

\* the row of check i is among the current rankings of its client
Queryable(i) ==
    \E res \in GetCurrentRankings(rankings, log[i].client_id) :
        \E n \in 1..Len(res) :
            /\ res[n].keyword = log[i].keyword
            /\ res[n].position = log[i].position
            /\ res[n].check_date = log[i].day

C24_TopThreeBoundary ==
    [][SaveStep =>
        LET new == last'.row[1]
        IN  \A q \in PriorRows(rankings, new) :
               (Present(q) /\ Present(new)
                  /\ Abs(q.position[1] - new.position[1]) < 5
                  /\ ~CrossesTop(10, q, new))
               => LET o == q.position[1]
                      n == new.position[1]
                  IN  /\ (o <= 3 /\ n > 3)
                         => Emits(new, "exited_top_3", q.position, new.position, o - n)
                      /\ (o > 3 /\ n <= 3)
                         => Emits(new, "entered_top_3", q.position, new.position, o - n)]_vars

\* C24 witness: the transition 3 -> 4 was saved and gave exited_top_3 with
\* change -1
C24_Witness ==
    /\ last.op = "save_ranking"
    /\ Len(alerts) = 1
    /\ alerts[1].alert_type = "exited_top_3"
    /\ alerts[1].old_position = Some(3)
    /\ alerts[1].new_position = Some(4)
    /\ alerts[1].change = -1

\* C25: the old_position a save is classified with is the position of the
\* row of the same (client_id, keyword) with the greatest check_date
\* strictly earlier than the new row's: without such a row no alert is
\* written, and with it the alert, if any, is the one that this row and the
\* new position give; the row of the same day, rows of other keys and
\* older rows have no part in it
C25_MostRecentEarlierRecord ==
    [][SaveStep =>
        LET new == last'.row[1]
            prior == PriorRows(rankings, new)
        IN  /\ prior = {} => alerts' = alerts
            /\ \A q \in prior :
                  IF AlertType(q.position, new.position) = "no_alert"
                  THEN alerts' = alerts
                  ELSE Emits(new, AlertType(q.position, new.position), q.position,
                             new.position, AlertChange(q.position, new.position))]_vars

\* C25 witness: (c1, k1) was saved at 2 on day 1, at 9 on day 2 and at 9 on
\* day 3: the save of day 3 is compared with day 2 and adds no alert to the
\* one of day 2
C25_Witness ==
    /\ rank_seq = 3
    /\ today = 3
    /\ \E r \in rankings :
          r.client_id = "c1" /\ r.keyword = "k1" /\ r.check_date = 1 /\ r.position = Some(2)
    /\ \E r \in rankings :
          r.client_id = "c1" /\ r.keyword = "k1" /\ r.check_date = 2 /\ r.position = Some(9)
    /\ last.row # None
    /\ last.row[1].client_id = "c1"
    /\ last.row[1].keyword = "k1"
    /\ last.row[1].check_date = 3
    /\ last.row[1].position = Some(9)
    /\ Len(alerts) = 1
    /\ alerts[1].alert_date = 2

\* C26: alert detection runs on a replacement save too: a save of a key
\* that already has a row of the same day, with an earlier-dated row that
\* makes the transition qualify, leaves one row for the day and adds one
\* more alert
C26_ReplacementSaveAlertsAgain ==
    [][SaveStep =>
        LET new == last'.row[1]
        IN  (/\ \E r \in rankings : SameKey(r, new)
             /\ \E q \in PriorRows(rankings, new) :
                   AlertType(q.position, new.position) # "no_alert")
            => /\ Len(alerts') = Len(alerts) + 1
               /\ alerts'[Len(alerts')].client_id = new.client_id
               /\ alerts'[Len(alerts')].keyword = new.keyword
               /\ Cardinality({r \in rankings' : SameKey(r, new)}) = 1]_vars

\* C26 witness: (c1, k1) was saved at 2 on day 1 and twice at 9 on day 2:
\* one row of day 2, two alerts of day 2
C26_Witness ==
    /\ rank_seq = 3
    /\ today = 2
    /\ Cardinality({r \in rankings : r.client_id = "c1" /\ r.keyword = "k1"
                                       /\ r.check_date = 2}) = 1
    /\ Len(alerts) = 2
    /\ \A i \in 1..2 :
          /\ alerts[i].client_id = "c1"
          /\ alerts[i].keyword = "k1"
          /\ alerts[i].alert_date = 2
          /\ alerts[i].alert_type = "major_movement"
          /\ alerts[i].old_position = Some(2)
          /\ alerts[i].new_position = Some(9)

(***************************************************************************)
(* Further properties of the runs.                                         *)
(***************************************************************************)
\* C27: in the run record of every run of track_all, successful_checks +
\* failed_checks = total_keywords and the error list has failed_checks
\* entries: every check counts in one of the two counters, also when the
\* pacing step raises after the save
C27_CountersSumToTotal ==
    (pc \in {"logged", "restoring", "done"} /\ mode # "keyword" /\ out = None)
    => LET run == tracking_runs[Len(tracking_runs)]
       IN  /\ run.successful_checks + run.failed_checks = run.total_keywords
           /\ ErrorLogLen(run) = run.failed_checks

\* C28: a single-client run checks only the keywords of the named client;
\* once it has ended, also with an exception, the client mapping of the
\* orchestrator is the full configured mapping again; for an unknown
\* client id nothing is scraped, saved or logged
C28_ClientRunRestoresMapping ==
    [][/\ (mode' = "client" /\ pc' \in {"running", "logged", "restoring"})
          => /\ Len(clients') = 1
             /\ \A i \in 1..Len(log') : log'[i].client_id = clients'[1].client_id
       /\ pc' \in {"idle", "done", "stopped", "crashed"} => clients' = ConfigClients
       /\ (out' = Some("client_not_found") /\ pc' = "done")
          => (storeVars' = storeVars /\ nchecks' = nchecks /\ log' = <<>>)]_vars

\* the conditions C29 puts on one row of the alerts table
AlertWellFormed(a) ==
    /\ a.change # 0
    /\ ~(a.old_position = None /\ a.new_position = None)
    /\ a.alert_type = "major_movement"
       => /\ a.old_position # None
          /\ a.new_position # None
          /\ Abs(a.change) >= 5
    /\ a.alert_type \in {"entered_top_10", "entered_top_3"}
       => (1 <= a.change /\ a.change <= 4)
    /\ a.alert_type \in {"exited_top_10", "exited_top_3"}
       => (-4 <= a.change /\ a.change <= -1)
    /\ a.alert_type = "new_entry"
       => /\ a.old_position = None
          /\ a.new_position # None
          /\ a.change = -a.new_position[1]
          /\ a.change < 0
    /\ a.alert_type = "dropped_out"
       => /\ a.new_position = None
          /\ a.old_position # None
          /\ a.change = a.old_position[1]
          /\ a.change > 0

\* C29: every row of the alerts table has a non-zero change and never two
\* absent positions; major_movement has both positions and |change| >= 5;
\* entered_top_10 and entered_top_3 have a change in 1..4; exited_top_10 and
\* exited_top_3 have a change in -4..-1; new_entry has no old position and
\* change = -new_position < 0; dropped_out has no new position and
\* change = old_position > 0
C29_AlertRecordInvariants ==
    \A i \in 1..Len(alerts) : AlertWellFormed(alerts[i])

\* C29 witness: the transition 7 -> 3 was saved and its row in the alerts
\* table is entered_top_3 with change 4
C29_Witness ==
    /\ last.op = "save_ranking"
    /\ Len(alerts) >= 1
    /\ alerts[Len(alerts)].alert_type = "entered_top_3"
    /\ alerts[Len(alerts)].old_position = Some(7)
    /\ alerts[Len(alerts)].new_position = Some(3)
    /\ alerts[Len(alerts)].change = 4

====
